---- MODULE Spec2Model ----
(***************************************************************************)
(* postgraphile-plugin-json-patch: the @patch smart tag.                   *)
(*                                                                         *)
(* ReplaceTypeWithPatchPlugin rewrites the field list of an input object   *)
(* type at schema build; ResolvePatchFieldsPlugin wraps procedure          *)
(* mutations and rewrites the submitted `input` value from inflected       *)
(* column names to raw column names.  The repository holds two versions of *)
(* the resolver plugin: one that precomputes a (type, field) -> table map  *)
(* when the field is wrapped ("precomputed"), and one that looks the tags  *)
(* up again on every call ("percall").  Both are modelled; `variant` says  *)
(* which one the schema was built with.                                    *)
(*                                                                         *)
(* The database is the one of the README: a function update_entity(id,     *)
(* entity_patch json, update_children entity_children_update[]), a         *)
(* composite type entity_children_update(child_id, child_patch json) and   *)
(* the tables public.entity and public.entity_children.                    *)
(***************************************************************************)
EXTENDS Integers, Sequences, FiniteSets, TLC

VARIABLES variant, procTags, typeTags, fields, built, phase, patchMap,
          wrapped, calls

vars == <<variant, procTags, typeTags, fields, built, phase, patchMap,
          wrapped, calls>>

(***************************************************************************)
(* Bounds of the model.                                                    *)
(***************************************************************************)
\* longest list submitted for updateChildren
MaxList == 2
\* invocations of the mutation field that may be in flight together
MaxCalls == 2

(***************************************************************************)
(* JavaScript values: null, numbers, objects (a function from the keys     *)
(* present to values) and arrays.  Threw stands for a raised TypeError.    *)
(***************************************************************************)
Null == [k |-> "null"]
Num(n) == [k |-> "number", v |-> n]
Obj(f) == [k |-> "object", fields |-> f]
Arr(s) == [k |-> "array", items |-> s]
Threw == [k |-> "threw"]
EmptyFields == [n \in {} |-> Null]
Undefined == [undefined |-> TRUE]

Range(s) == {s[i] : i \in DOMAIN s}
Merge(f, g) == [x \in (DOMAIN f) \cup (DOMAIN g) |->
                  IF x \in DOMAIN g THEN g[x] ELSE f[x]]

(***************************************************************************)
(* GraphQL types: a named type, or a list / non-null wrapper around one.   *)
(***************************************************************************)
Named(n) == [kind |-> "named", name |-> n]
ListOf(t) == [kind |-> "list", ofType |-> t]
NonNull(t) == [kind |-> "nonnull", ofType |-> t]
UndefinedType == [kind |-> "undefined"]

InputObjectTypes == {"UpdateEntityInput", "EntityChildrenUpdateInput",
                     "EntityPatch", "EntityChildPatch"}
ScalarTypes == {"JSON", "UUID", "String", "Int"}

isListType(t) == t.kind = "list"
isNonNullType(t) == t.kind = "nonnull"
isInputObjectType(t) == t.kind = "named" /\ t.name \in InputObjectTypes
\* no object or interface type is reachable from an input argument
isObjectType(t) == FALSE
isInterfaceType(t) == FALSE

\* the schema's type registry
getTypeByName(n) == IF n \in InputObjectTypes \cup ScalarTypes
                    THEN Named(n) ELSE UndefinedType

\* the field lists as the schema builder assembles them, before any hook
OriginalFields ==
  [UpdateEntityInput |->
     [clientMutationId |-> Named("String"),
      id |-> Named("UUID"),
      entityPatch |-> Named("JSON"),
      updateChildren |-> ListOf(Named("EntityChildrenUpdateInput"))],
   EntityChildrenUpdateInput |->
     [childId |-> Named("UUID"),
      childPatch |-> Named("JSON")],
   EntityPatch |->
     [firstColumn |-> Named("Int"),
      secondColumn |-> Named("Int")],
   EntityChildPatch |->
     [id |-> Named("UUID"),
      childName |-> Named("String")]]

\* the `input` argument of the mutation field updateEntity
InputArgType == NonNull(Named("UpdateEntityInput"))

(***************************************************************************)
(* Introspection results.                                                  *)
(***************************************************************************)
EntityTable == [namespace |-> "public", name |-> "entity",
                attributes |-> <<"first_column", "second_column">>]
EntityChildrenTable == [namespace |-> "public", name |-> "entity_children",
                        attributes |-> <<"id", "child_name">>]
\* pgIntrospectionResultsByKind.class
Classes == {EntityTable, EntityChildrenTable}

\* A smart tag "arg namespace.table" after the two splits.
Tag(arg, ns, tbl) == [arg |-> arg, namespace |-> ns, table |-> tbl]
\* tags.patch: absent, one string, or an array of strings
NoTags == [kind |-> "none"]
OneTag(t) == [kind |-> "string", tag |-> t]
ManyTags(s) == [kind |-> "array", tags |-> s]

\* the @patch tags a function comment may carry
ProcTagChoices ==
  {NoTags,
   OneTag(Tag("entity_patch", "public", "entity")),
   OneTag(Tag("entity_patch", "public", "missing")),
   OneTag(Tag("no_such_arg", "public", "entity")),
   ManyTags(<<Tag("entity_patch", "public", "entity_children"),
              Tag("entity_patch", "public", "entity")>>)}
\* the @patch tags the composite type's comment may carry
TypeTagChoices ==
  {NoTags,
   OneTag(Tag("child_patch", "public", "entity_children")),
   OneTag(Tag("child_patch", "public", "missing"))}

(***************************************************************************)
(* Inflection, on the names of this database.                              *)
(***************************************************************************)
column(attr) ==
  CASE attr = "first_column" -> "firstColumn"
    [] attr = "second_column" -> "secondColumn"
    [] attr = "child_name" -> "childName"
    [] attr = "id" -> "id"

argument(arg) ==
  CASE arg = "entity_patch" -> "entityPatch"
    [] arg = "child_patch" -> "childPatch"
    [] arg = "no_such_arg" -> "noSuchArg"

\* inflection.patchType(inflection.tableType(table)); the inflector is not
\* written for a table that was not found, see FieldsHookThrows
patchTypeOfTable(table) ==
  CASE table = EntityTable -> "EntityPatch"
    [] table = EntityChildrenTable -> "EntityChildPatch"
    [] OTHER -> "UndefinedPatch"

\* the tags of the procedure whose inflection.functionInputType is `name`
ProcTagsByInputType(name) ==
  IF name = "UpdateEntityInput" THEN procTags ELSE NoTags

\* the tags of the composite type whose
\* inflection.inputType(inflection.domainType(type)) is `name`
TypeTagsByInputType(name) ==
  IF name = "EntityChildrenUpdateInput" THEN typeTags ELSE NoTags

\* scope.isMutationInput of the type being built
isMutationInput(name) == name = "UpdateEntityInput"

(***************************************************************************)
(* The annotation resolution both plugins share.                           *)
(***************************************************************************)
\* Array.isArray(patchTags) ? patchTags : [patchTags]
TagList(tags) ==
  CASE tags.kind = "none" -> <<>>
    [] tags.kind = "string" -> <<tags.tag>>
    [] tags.kind = "array" -> tags.tags

\* pgIntrospectionResultsByKind.class.find(...)
findTable(tag) ==
  LET found == {t \in Classes :
                  t.namespace = tag.namespace /\ t.name = tag.table}
  IN IF found = {} THEN Undefined ELSE CHOOSE t \in found : TRUE

\* the inflected names the tags of a declaration speak of
TagArgs(tags) == {argument(t.arg) : t \in Range(TagList(tags))}

\* the tag that decides a name: a later tag overwrites an earlier one, in the
\* object spread of the hook as in Map.set
LastTag(tags, name) ==
  LET list == TagList(tags)
      last == CHOOSE i \in DOMAIN list :
                /\ argument(list[i].arg) = name
                /\ \A j \in DOMAIN list :
                     argument(list[j].arg) = name => j <= i
  IN list[last]

(***************************************************************************)
(* ReplaceTypeWithPatchPlugin: the GraphQLInputObjectType:fields hook.     *)
(***************************************************************************)
\* pgIntrospection?.type?.tags?.patch of the build context
IntrospectionTypeTags(name) == TypeTagsByInputType(name)

hookPatchTags(name) ==
  LET ofProc == IF isMutationInput(name)
                THEN ProcTagsByInputType(name) ELSE NoTags
  IN IF ofProc.kind # "none" THEN ofProc ELSE IntrospectionTypeTags(name)

\* the .map(...).reduce(...) of the hook
patchFields(name) ==
  LET tags == hookPatchTags(name)
  IN [arg \in TagArgs(tags) |->
        getTypeByName(patchTypeOfTable(findTable(LastTag(tags, arg))))]

\* the spread with its operands swapped: an original field wins over a patch
SpreadFirstWins(inputFields, patches) == Merge(patches, inputFields)

\* { ...inputFields, ...patchFields }
Spread(inputFields, patches) == Merge(inputFields, patches)

replaceTypeWithPatch(name, inputFields) ==
  IF hookPatchTags(name).kind # "none"
  THEN Spread(inputFields, patchFields(name))
  ELSE inputFields

\* some tag of the type names a table that introspection did not find
HasUnresolvedTag(name) ==
  \E t \in Range(TagList(hookPatchTags(name))) : findTable(t) = Undefined

(***************************************************************************)
(* ResolvePatchFieldsPlugin, shared pieces.                                *)
(***************************************************************************)
getKey(type, arg) == <<type, arg>>
EmptyMap == [key \in {} |-> Undefined]

\* procedure.find(...)?.tags?.patch || type.find(...)?.tags?.patch
resolverPatchTags(name) ==
  LET ofProc == ProcTagsByInputType(name)
  IN IF ofProc.kind # "none" THEN ofProc ELSE TypeTagsByInputType(name)

\* newJson with a key for every attribute, submitted or not
newJsonAllAttributes(table, val) ==
  IF table = Undefined \/ val.k # "object" THEN Threw
  ELSE Obj([a \in Range(table.attributes) |->
              IF column(a) \in DOMAIN val.fields
              THEN val.fields[column(a)] ELSE Null])

\* newJson that copies the submitted keys without renaming them
newJsonKeepsInflected(table, val) ==
  IF table = Undefined \/ val.k # "object" THEN Threw
  ELSE Obj([n \in {column(a) : a \in Range(table.attributes)}
                    \cap DOMAIN val.fields |-> val.fields[n]])

\* attributes.reduce(...): the object keyed by raw column names.  Reading
\* .attributes of undefined raises, and so does `fieldName in val` when val
\* is null or a number.
newJson(table, val) ==
  IF table = Undefined THEN Threw
  ELSE IF table.attributes = <<>> THEN Obj(EmptyFields)
  ELSE IF val.k \in {"null", "number"} THEN Threw
  ELSE IF val.k = "array" THEN Obj(EmptyFields)
  ELSE Obj([a \in {b \in Range(table.attributes) :
                     column(b) \in DOMAIN val.fields} |->
              val.fields[column(a)]])

\* the entries one input object type contributes: Map.set per tag
tagEntries(name) ==
  LET tags == resolverPatchTags(name)
  IN [key \in {getKey(name, arg) : arg \in TagArgs(tags)} |->
        findTable(LastTag(tags, key[2]))]

isObjectLike(t) == isInputObjectType(t) \/ isObjectType(t) \/ isInterfaceType(t)

(***************************************************************************)
(* The precomputing resolver plugin.                                       *)
(***************************************************************************)
RECURSIVE populatePatchMap(_, _), populateFields(_, _, _)

\* populatePatchMap that descends into the fields of tagged types only
populateOwnTagsOnly(schema, type) ==
  IF isListType(type) \/ isNonNullType(type)
  THEN populatePatchMap(schema, type.ofType)
  ELSE IF isObjectLike(type)
  THEN LET own == tagEntries(type.name)
       IN IF own = EmptyMap
          THEN EmptyMap
          ELSE Merge(own, populateFields(schema, type.name,
                                         DOMAIN schema[type.name]))
  ELSE EmptyMap

\* the map of every @patch position reachable from `type`
populatePatchMap(schema, type) ==
  IF isListType(type) \/ isNonNullType(type)
  THEN populatePatchMap(schema, type.ofType)
  ELSE IF isObjectLike(type)
  THEN Merge(IF isInputObjectType(type) THEN tagEntries(type.name)
             ELSE EmptyMap,
             populateFields(schema, type.name, DOMAIN schema[type.name]))
  ELSE EmptyMap

\* Object.values(type.getFields()).forEach(field => populatePatchMap(...))
populateFields(schema, name, todo) ==
  IF todo = {} THEN EmptyMap
  ELSE LET f == CHOOSE g \in todo : TRUE
       IN Merge(populatePatchMap(schema, schema[name][f]),
                populateFields(schema, name, todo \ {f}))

RECURSIVE transform(_, _, _, _)
\* the destructive rewrite of one call, as the value `argValues` holds after
\* it, or Threw
transform(schema, map, type, argValues) ==
  IF isListType(type) /\ argValues.k = "array"
  THEN LET items == [i \in DOMAIN argValues.items |->
                       transform(schema, map, type.ofType, argValues.items[i])]
       IN IF \E i \in DOMAIN items : items[i] = Threw
          THEN Threw ELSE Arr(items)
  ELSE IF isNonNullType(type)
  THEN transform(schema, map, type.ofType, argValues)
  ELSE IF isObjectLike(type) /\ argValues.k # "array"
  THEN IF argValues.k = "null" THEN Threw     \* Object.entries(null)
       ELSE IF argValues.k = "number" THEN argValues
       ELSE LET res == [arg \in DOMAIN argValues.fields |->
                  IF getKey(type.name, arg) \in DOMAIN map
                  THEN newJson(map[getKey(type.name, arg)],
                               argValues.fields[arg])
                  ELSE IF arg \notin DOMAIN schema[type.name]
                  THEN Threw                  \* inputTypeField.type
                  ELSE transform(schema, map, schema[type.name][arg],
                                 argValues.fields[arg])]
            IN IF \E arg \in DOMAIN res : res[arg] = Threw
               THEN Threw ELSE Obj(res)
  ELSE argValues

(***************************************************************************)
(* The resolver plugin that looks the tags up on every call.               *)
(***************************************************************************)
\* patchArgAndTableMap of one type
patchArgAndTableMap(name) ==
  LET tags == resolverPatchTags(name)
  IN [arg \in TagArgs(tags) |-> findTable(LastTag(tags, arg))]

RECURSIVE transformPerCall(_, _, _)
\* the rewritten copy of nestedArgs, or Threw
transformPerCall(schema, type, nestedArgs) ==
  IF isListType(type) /\ nestedArgs.k = "array"
  THEN LET items == [i \in DOMAIN nestedArgs.items |->
                       transformPerCall(schema, type.ofType,
                                        nestedArgs.items[i])]
       IN IF \E i \in DOMAIN items : items[i] = Threw
          THEN Threw ELSE Arr(items)
  ELSE IF isNonNullType(type)
  THEN transformPerCall(schema, type.ofType, nestedArgs)
  ELSE IF isObjectLike(type)
  THEN IF nestedArgs.k = "null" THEN Threw    \* Object.entries(null)
       ELSE IF nestedArgs.k = "number" THEN Obj(EmptyFields)
       ELSE IF nestedArgs.k = "array"
       THEN (IF nestedArgs.items = <<>> THEN Obj(EmptyFields) ELSE Threw)
       ELSE LET tables == IF isInputObjectType(type)
                          THEN patchArgAndTableMap(type.name)
                          ELSE [arg \in {} |-> Undefined]
                res == [arg \in DOMAIN nestedArgs.fields |->
                  IF arg \in DOMAIN tables
                  THEN newJson(tables[arg], nestedArgs.fields[arg])
                  ELSE IF arg \notin DOMAIN schema[type.name]
                  THEN Threw                  \* inputTypeField.type
                  ELSE transformPerCall(schema, schema[type.name][arg],
                                        nestedArgs.fields[arg])]
            IN IF \E arg \in DOMAIN res : res[arg] = Threw
               THEN Threw ELSE Obj(res)
  ELSE nestedArgs

(***************************************************************************)
(* makeWrapResolversPlugin: the filter decides whether the field is        *)
(* wrapped, the wrapper rewrites args and calls the wrapped resolver.      *)
(***************************************************************************)
\* scope of the mutation field updateEntity
isRootMutation == TRUE
pgFieldIntrospectionKind == "procedure"

\* the map the filter of the precomputing plugin builds
filterPatchMap(v, schema) ==
  IF v = "precomputed" /\ isRootMutation
     /\ pgFieldIntrospectionKind = "procedure"
  THEN populatePatchMap(schema, InputArgType)
  ELSE EmptyMap

\* whether the filter returns a match (the resolver is wrapped)
filterMatches(v, map) ==
  IF v = "precomputed"
  THEN map # EmptyMap
  ELSE isRootMutation /\ pgFieldIntrospectionKind = "procedure"

\* the args the wrapper hands to resolve(source, args, context, resolveInfo),
\* or Threw when the rewrite raised before resolve was called
resolverArgs(v, schema, map, args) ==
  IF v = "precomputed"
  THEN LET r == transform(schema, map, InputArgType, args["input"])
       IN IF r = Threw THEN Threw
          ELSE [a \in DOMAIN args |-> IF a = "input" THEN r ELSE args[a]]
  ELSE LET r == transformPerCall(schema, InputArgType, args["input"])
       IN IF r = Threw THEN Threw ELSE [a \in {"input"} |-> r]

\* a wrapper that empties the map it has read
resolverPatchMapConsumed(map, args) == EmptyMap

\* the precomputed map after a call: the wrapper only reads it (has, get)
resolverPatchMap(map, args) == map

(***************************************************************************)
(* The values a client may submit for `input`: valid against the schema    *)
(* with or without the substitution.                                       *)
(***************************************************************************)
\* every object with some of the keys, key n holding a value of ValuesAt[n]
ObjectsOver(required, optional, ValuesAt) ==
  UNION {{Obj(f) : f \in {g \in [required \cup opt ->
                                   UNION {ValuesAt[n] : n \in DOMAIN ValuesAt}] :
                            \A n \in DOMAIN g : g[n] \in ValuesAt[n]}} :
         opt \in SUBSET optional}

EntityPatchValues ==
  {Null} \cup ObjectsOver({}, {"firstColumn", "secondColumn"},
                          [firstColumn |-> {Num(1)}, secondColumn |-> {Num(2)}])

ChildPatchValues ==
  {Null} \cup ObjectsOver({}, {"id", "childName"},
                          [id |-> {Num(7)}, childName |-> {Num(8)}])

ChildValues ==
  {Null} \cup ObjectsOver({"childId"}, {"childPatch"},
                          [childId |-> {Num(7)}, childPatch |-> ChildPatchValues])

SeqsUpTo(S, n) == UNION {[1..m -> S] : m \in 0..n}

ChildListValues == {Null} \cup {Arr(s) : s \in SeqsUpTo(ChildValues, MaxList)}

InputValues ==
  ObjectsOver({"id"}, {"entityPatch", "updateChildren"},
              [id |-> {Num(1)},
               entityPatch |-> EntityPatchValues,
               updateChildren |-> ChildListValues])

\* the args of a call: `input`, with or without a sibling argument
ArgValues ==
  {[a \in {"input"} |-> v] : v \in InputValues}
    \cup {[a \in {"input", "dryRun"} |-> IF a = "input" THEN v ELSE Num(1)] :
            v \in InputValues}

\* the few args the interleaved calls are made with
ConcArgValues ==
  {args \in ArgValues :
     /\ DOMAIN args = {"input"}
     /\ "entityPatch" \in DOMAIN args["input"].fields
     /\ args["input"].fields["entityPatch"] # Null
     /\ "secondColumn" \notin DOMAIN args["input"].fields["entityPatch"].fields
     /\ "updateChildren" \in DOMAIN args["input"].fields
     /\ args["input"].fields["updateChildren"] \in
          {Null, Arr(<<Obj([childId |-> Num(7),
                            childPatch |-> Obj([id |-> Num(7)])])>>)}}

(***************************************************************************)
(* State.                                                                  *)
(***************************************************************************)
NoArgs == [a \in {} |-> Null]
Idle == [stage |-> "idle", submitted |-> NoArgs, first |-> NoArgs,
         passed |-> NoArgs, rewrites |-> 0]

Init ==
  /\ variant \in {"precomputed", "percall"}
  /\ procTags \in ProcTagChoices
  /\ typeTags \in TypeTagChoices
  /\ fields = OriginalFields
  /\ built = {}
  /\ phase = "build"
  /\ patchMap = EmptyMap
  /\ wrapped = FALSE
  /\ calls = [c \in 1..MaxCalls |-> Idle]

\* the schema builder resolves the fields of one input object type
FieldsHook(name) ==
  /\ phase = "build"
  /\ name \notin built
  /\ fields' = [fields EXCEPT ![name] = replaceTypeWithPatch(name, fields[name])]
  /\ built' = built \cup {name}
  /\ UNCHANGED <<variant, procTags, typeTags, phase, patchMap, wrapped, calls>>

\* inflection.tableType(undefined): the inflector may raise, which ends the
\* schema build
FieldsHookThrows(name) ==
  /\ phase = "build"
  /\ name \notin built
  /\ HasUnresolvedTag(name)
  /\ phase' = "failed"
  /\ UNCHANGED <<variant, procTags, typeTags, fields, built, patchMap,
                 wrapped, calls>>

\* the filter of makeWrapResolversPlugin runs on the field updateEntity
WrapResolvers ==
  /\ phase = "build"
  /\ built = InputObjectTypes
  /\ patchMap' = filterPatchMap(variant, fields)
  /\ wrapped' = filterMatches(variant, patchMap')
  /\ phase' = "serve"
  /\ UNCHANGED <<variant, procTags, typeTags, fields, built, calls>>

\* a client calls the mutation; the rewrite runs to its end before anything
\* else does
Invoke(c, args) ==
  /\ phase = "serve"
  /\ calls[c].stage = "idle"
  /\ LET out == IF wrapped
                THEN resolverArgs(variant, fields, patchMap, args)
                ELSE args
     IN calls' = [calls EXCEPT ![c] =
          IF out = Threw
          THEN [stage |-> "threw", submitted |-> args, first |-> NoArgs,
                passed |-> NoArgs, rewrites |-> 0]
          ELSE [stage |-> "pending", submitted |-> args, first |-> out,
                passed |-> out, rewrites |-> IF wrapped THEN 1 ELSE 0]]
  /\ patchMap' = resolverPatchMap(patchMap, args)
  /\ UNCHANGED <<variant, procTags, typeTags, fields, built, phase, wrapped>>

\* the plugin was appended twice: the outer wrapper's resolve is the inner
\* wrapper, which rewrites the args it is handed once more
ResolveAgain(c) ==
  /\ phase = "serve"
  /\ wrapped
  /\ calls[c].stage = "pending"
  /\ calls[c].rewrites = 1
  /\ LET out == resolverArgs(variant, fields, patchMap, calls[c].passed)
     IN calls' = [calls EXCEPT ![c] =
          IF out = Threw
          THEN [@ EXCEPT !.stage = "threw", !.passed = NoArgs]
          ELSE [@ EXCEPT !.passed = out, !.rewrites = 2]]
  /\ patchMap' = resolverPatchMap(patchMap, calls[c].passed)
  /\ UNCHANGED <<variant, procTags, typeTags, fields, built, phase, wrapped>>

\* the wrapped resolver's promise settles (or the TypeError was reported)
Return(c) ==
  /\ phase = "serve"
  /\ calls[c].stage \in {"pending", "threw"}
  /\ calls' = [calls EXCEPT ![c] = Idle]
  /\ UNCHANGED <<variant, procTags, typeTags, fields, built, phase, patchMap,
                 wrapped>>

Build ==
  \/ \E name \in InputObjectTypes : FieldsHook(name)
  \/ \E name \in InputObjectTypes : FieldsHookThrows(name)
  \/ WrapResolvers

\* one call at a time, any valid args
Next ==
  \/ Build
  \/ \E args \in ArgValues : Invoke(1, args)
  \/ ResolveAgain(1)
  \/ Return(1)

Spec == Init /\ [][Next]_vars

\* calls interleave at the await of the wrapped resolver
NextConc ==
  \/ Build
  \/ \E c \in 1..MaxCalls, args \in ConcArgValues : Invoke(c, args)
  \/ \E c \in 1..MaxCalls : Return(c)

SpecConc == Init /\ [][NextConc]_vars

(***************************************************************************)
(* Reading a call: the positions of a submitted value that the type graph  *)
(* types as a field of an input object type.                               *)
(***************************************************************************)
Missing == [k |-> "missing"]
ArgOf(args, n) == IF n \in DOMAIN args THEN args[n] ELSE Missing
FieldOf(v, n) == IF v.k = "object" /\ n \in DOMAIN v.fields
                 THEN v.fields[n] ELSE Missing
KeysOf(v) == IF v.k = "object" THEN DOMAIN v.fields ELSE {}
ItemsOf(v) == IF v.k = "array" THEN v.items ELSE <<>>
ItemOf(v, i) == IF v.k = "array" /\ i \in DOMAIN v.items
                THEN v.items[i] ELSE Missing

\* every (type, field) position of `before`, with the value there and the
\* value at the same place of `after`
Sites(before, after) ==
  LET i == ArgOf(before, "input")
      o == ArgOf(after, "input")
      li == FieldOf(i, "updateChildren")
      lo == FieldOf(o, "updateChildren")
  IN {[type |-> "UpdateEntityInput", field |-> f,
       sub |-> FieldOf(i, f), out |-> FieldOf(o, f)] : f \in KeysOf(i)}
     \cup UNION {{[type |-> "EntityChildrenUpdateInput", field |-> f,
                   sub |-> FieldOf(ItemOf(li, n), f),
                   out |-> FieldOf(ItemOf(lo, n), f)] :
                     f \in KeysOf(ItemOf(li, n))} : n \in DOMAIN ItemsOf(li)}

\* the table the tags of type T give field f, Undefined when they give none
\* or name a table that does not exist
AnnotatedTable(T, f) ==
  LET tags == resolverPatchTags(T)
  IN IF f \in TagArgs(tags) THEN findTable(LastTag(tags, f)) ELSE Undefined

\* (T, f) carries a tag whose table introspection did not find
UnresolvedAt(T, f) ==
  f \in TagArgs(resolverPatchTags(T)) /\ AnnotatedTable(T, f) = Undefined

\* `out` is `sub` re-keyed from inflected to raw column names of `table`
RewrittenBy(table, sub, out) ==
  /\ sub.k = "object"
  /\ out.k = "object"
  /\ DOMAIN out.fields = {a \in Range(table.attributes) :
                            column(a) \in DOMAIN sub.fields}
  /\ \A a \in DOMAIN out.fields : out.fields[a] = sub.fields[column(a)]

\* the wrapper of call c ran and handed args to the wrapped resolver
Rewrote(c) == calls[c].stage = "pending" /\ calls[c].rewrites >= 1
CallIds == 1..MaxCalls

\* a null where the type graph has an input object or a patch
HasNullObject(args) ==
  LET i == ArgOf(args, "input")
  IN \/ FieldOf(i, "entityPatch") = Null
     \/ \E n \in DOMAIN ItemsOf(FieldOf(i, "updateChildren")) :
          LET e == ItemOf(FieldOf(i, "updateChildren"), n)
          IN e = Null \/ FieldOf(e, "childPatch") = Null

(***************************************************************************)
(* C1.  Per-call rewrite rule: whenever the wrapper hands args to the      *)
(* wrapped resolver, at every field f of an object-like type T present in  *)
(* the submitted value and tagged with a table that exists, the value      *)
(* handed on is an object whose keys are exactly the raw names of the      *)
(* attributes whose inflected name is a key of the submitted value, each   *)
(* carrying the value submitted under the inflected name; attributes not   *)
(* submitted get no key.                                                   *)
(***************************************************************************)
C1_RewriteRule ==
  \A c \in CallIds :
    Rewrote(c) =>
      \A s \in Sites(calls[c].submitted, calls[c].first) :
        AnnotatedTable(s.type, s.field) # Undefined =>
          RewrittenBy(AnnotatedTable(s.type, s.field), s.sub, s.out)

\* a partial patch { firstColumn: 1 } went through as { first_column: 1 }
C1_Witness ==
  \E c \in CallIds :
    /\ Rewrote(c)
    /\ AnnotatedTable("UpdateEntityInput", "entityPatch") = EntityTable
    /\ FieldOf(ArgOf(calls[c].submitted, "input"), "entityPatch")
         = Obj([firstColumn |-> Num(1)])
    /\ FieldOf(ArgOf(calls[c].first, "input"), "entityPatch")
         = Obj([first_column |-> Num(1)])

(***************************************************************************)
(* C2.  Schema substitution changes only annotated fields: once the hook   *)
(* has run on a type whose tags all name existing tables, every field a    *)
(* tag names has the patch type looked up for a tag naming it, and every   *)
(* other field of the original list keeps its type; a type without tags    *)
(* keeps its original field list.                                          *)
(***************************************************************************)
C2_OnlyAnnotatedFieldsChange ==
  \A name \in built :
    LET tags == hookPatchTags(name)
    IN /\ tags.kind = "none" => fields[name] = OriginalFields[name]
       /\ (tags.kind # "none" /\ ~HasUnresolvedTag(name)) =>
            /\ \A f \in TagArgs(tags) :
                 /\ f \in DOMAIN fields[name]
                 /\ \E t \in Range(TagList(tags)) :
                      /\ argument(t.arg) = f
                      /\ fields[name][f] =
                           getTypeByName(patchTypeOfTable(findTable(t)))
            /\ \A f \in DOMAIN OriginalFields[name] \ TagArgs(tags) :
                 /\ f \in DOMAIN fields[name]
                 /\ fields[name][f] = OriginalFields[name][f]

\* entityPatch became EntityPatch, its siblings kept their types
C2_Witness ==
  /\ "UpdateEntityInput" \in built
  /\ procTags = OneTag(Tag("entity_patch", "public", "entity"))
  /\ fields["UpdateEntityInput"]["entityPatch"] = Named("EntityPatch")
  /\ OriginalFields["UpdateEntityInput"]["entityPatch"] = Named("JSON")
  /\ fields["UpdateEntityInput"]["id"] = Named("UUID")

(***************************************************************************)
(* C3.  A tag naming a table that does not exist never makes a call raise: *)
(* a call whose value has no null object raises nothing, and the value at  *)
(* the tagged field is handed on as the value of an untagged field is.     *)
(***************************************************************************)
C3_UnresolvedNeverThrows ==
  \A c \in CallIds :
    (calls[c].stage # "idle" /\ ~HasNullObject(calls[c].submitted)) =>
      /\ calls[c].stage # "threw"
      /\ \A s \in Sites(calls[c].submitted, calls[c].first) :
           UnresolvedAt(s.type, s.field) => s.out = s.sub

(***************************************************************************)
(* C4.  Annotations are found and applied at any depth: the precomputed    *)
(* map holds every tagged position reachable from the input argument, and  *)
(* whenever args reach the wrapped resolver a submitted list comes out as  *)
(* a list of the same length whose every element is rewritten by the rule  *)
(* of the item type alone (its tagged field re-keyed, its other fields     *)
(* kept), whether or not the mutation's own input type carries a tag.      *)
(***************************************************************************)
C4_AnyDepth ==
  /\ (phase = "serve" /\ variant = "precomputed") =>
       \A T \in {"UpdateEntityInput", "EntityChildrenUpdateInput"} :
         \A f \in TagArgs(resolverPatchTags(T)) :
           AnnotatedTable(T, f) # Undefined =>
             /\ wrapped
             /\ getKey(T, f) \in DOMAIN patchMap
             /\ patchMap[getKey(T, f)] = AnnotatedTable(T, f)
  /\ \A c \in CallIds :
       calls[c].stage = "pending" =>
         LET li == FieldOf(ArgOf(calls[c].submitted, "input"), "updateChildren")
             lo == FieldOf(ArgOf(calls[c].first, "input"), "updateChildren")
             tbl == AnnotatedTable("EntityChildrenUpdateInput", "childPatch")
         IN (li.k = "array" /\ tbl # Undefined) =>
              /\ lo.k = "array"
              /\ Len(lo.items) = Len(li.items)
              /\ \A n \in DOMAIN li.items :
                   /\ KeysOf(lo.items[n]) = KeysOf(li.items[n])
                   /\ \A f \in KeysOf(li.items[n]) :
                        IF f = "childPatch"
                        THEN RewrittenBy(tbl, li.items[n].fields[f],
                                         FieldOf(lo.items[n], f))
                        ELSE FieldOf(lo.items[n], f) = li.items[n].fields[f]

\* two different list elements, each rewritten, under an untagged input type
C4_Witness ==
  \E c \in CallIds :
    /\ calls[c].stage = "pending"
    /\ procTags = NoTags
    /\ FieldOf(ArgOf(calls[c].submitted, "input"), "updateChildren")
         = Arr(<<Obj([childId |-> Num(7),
                      childPatch |-> Obj([childName |-> Num(8)])]),
                 Obj([childId |-> Num(7),
                      childPatch |-> Obj([id |-> Num(7)])])>>)
    /\ FieldOf(ArgOf(calls[c].first, "input"), "updateChildren")
         = Arr(<<Obj([childId |-> Num(7),
                      childPatch |-> Obj([child_name |-> Num(8)])]),
                 Obj([childId |-> Num(7),
                      childPatch |-> Obj([id |-> Num(7)])])>>)

(***************************************************************************)
(* C5.  The wrapper never alters a sibling of `input`: every other key of  *)
(* the submitted args reaches the wrapped resolver with the value it was   *)
(* submitted with.                                                         *)
(***************************************************************************)
C5_SiblingsUntouched ==
  \A c \in CallIds :
    calls[c].stage = "pending" =>
      \A a \in DOMAIN calls[c].submitted \ {"input"} :
        /\ a \in DOMAIN calls[c].first
        /\ calls[c].first[a] = calls[c].submitted[a]

(***************************************************************************)
(* C6.  A tag whose inflected name matches no field of the type is inert:  *)
(* the hook returns a list with the same field names as the original, and  *)
(* the types of the existing fields are unchanged by it.                   *)
(***************************************************************************)
C6_UnmatchedTagInert ==
  \A name \in built :
    (\E f \in TagArgs(hookPatchTags(name)) :
        f \notin DOMAIN OriginalFields[name]) =>
      /\ DOMAIN fields[name] = DOMAIN OriginalFields[name]
      /\ \A f \in DOMAIN OriginalFields[name] \ TagArgs(hookPatchTags(name)) :
           fields[name][f] = OriginalFields[name][f]

(***************************************************************************)
(* C7.  With no @patch tag on any type reachable from the input argument,  *)
(* the resolver of the mutation field is left unwrapped, and every call    *)
(* reaches the original resolver with args equal to the submitted ones.    *)
(***************************************************************************)
C7_UntaggedPassesThrough ==
  (procTags = NoTags /\ typeTags = NoTags) =>
    \A c \in CallIds :
      calls[c].stage # "idle" =>
        /\ ~wrapped
        /\ calls[c].stage = "pending"
        /\ calls[c].first = calls[c].submitted

(***************************************************************************)
(* C8, as claimed.  A second application of the rewrite re-matches         *)
(* nothing: no attribute's inflected name is a key of the already          *)
(* rewritten sub-object, so nothing of it is carried over again.           *)
(***************************************************************************)
C8_NothingRematches ==
  \A c \in CallIds :
    (calls[c].stage = "pending" /\ calls[c].rewrites = 2) =>
      \A s \in Sites(calls[c].first, calls[c].passed) :
        AnnotatedTable(s.type, s.field) # Undefined =>
          /\ \A a \in Range(AnnotatedTable(s.type, s.field).attributes) :
               column(a) \notin KeysOf(s.sub)
          /\ KeysOf(s.out) = {}

(***************************************************************************)
(* C8, amended.  A second application matches the same (type, field) again *)
(* and re-keys the already rewritten sub-object by the same rule: an       *)
(* attribute is kept exactly when its inflected name is a key of that      *)
(* sub-object (a column whose inflected and raw names coincide), and every *)
(* other key is dropped.                                                   *)
(***************************************************************************)
C8_SecondRewriteKeepsCoincidingNames ==
  \A c \in CallIds :
    (calls[c].stage = "pending" /\ calls[c].rewrites = 2) =>
      \A s \in Sites(calls[c].first, calls[c].passed) :
        AnnotatedTable(s.type, s.field) # Undefined =>
          /\ RewrittenBy(AnnotatedTable(s.type, s.field), s.sub, s.out)
          /\ \A a \in KeysOf(s.sub) :
               column(a) \notin KeysOf(s.sub) => a \notin KeysOf(s.out)

\* { id, childName } became { id, child_name }, then { id }
C8_Witness ==
  \E c \in CallIds :
    /\ calls[c].stage = "pending"
    /\ calls[c].rewrites = 2
    /\ \E s \in Sites(calls[c].first, calls[c].passed) :
         /\ s.type = "EntityChildrenUpdateInput"
         /\ s.field = "childPatch"
         /\ AnnotatedTable(s.type, s.field) = EntityChildrenTable
         /\ s.sub = Obj([id |-> Num(7), child_name |-> Num(8)])
         /\ s.out = Obj([id |-> Num(7)])

(***************************************************************************)
(* C9.  Once the field is wrapped, no step of any interleaving of calls    *)
(* changes the precomputed map, the tags or the schema, a step changes the *)
(* record of one call at most, and what a call hands on depends on its own *)
(* submitted args only.                                                    *)
(***************************************************************************)
C9_MapReadOnlyCallsIndependent ==
  /\ [][phase = "serve" =>
          /\ patchMap' = patchMap
          /\ fields' = fields
          /\ procTags' = procTags /\ typeTags' = typeTags
          /\ \A c, d \in CallIds :
               (c # d /\ calls'[c] # calls[c]) => calls'[d] = calls[d]]_vars
  /\ [](\A c, d \in CallIds :
          (calls[c].stage # "idle" /\ calls[d].stage # "idle"
             /\ calls[c].submitted = calls[d].submitted) =>
            calls[c] = calls[d])

\* two calls of the wrapped field in flight together, with different args
C9_Witness ==
  /\ variant = "precomputed"
  /\ wrapped
  /\ patchMap # EmptyMap
  /\ \E c, d \in CallIds :
       /\ c # d
       /\ Rewrote(c) /\ Rewrote(d)
       /\ calls[c].submitted # calls[d].submitted

(***************************************************************************)
(* C10.  With every tag naming an existing table, the rewrite raises for   *)
(* no valid submitted value, a null object or null patch included.         *)
(***************************************************************************)
C10_NeverRaises ==
  (\A T \in InputObjectTypes :
      \A f \in TagArgs(resolverPatchTags(T)) : ~UnresolvedAt(T, f)) =>
    \A c \in CallIds : calls[c].stage # "threw"

====
